---- MODULE Spec2Model ----
(***************************************************************************)
(* The job-digest pipeline of job_agent.py and job_agent_2.py:             *)
(* scrape -> deduplicate by link -> cap -> fetch details -> score with the *)
(* text-generation endpoint -> filter -> rank -> top 10 -> send.           *)
(*                                                                         *)
(* Both programs are modelled; prog says which one is running.  All the    *)
(* external inputs (feed entries, cards, detail pages, model responses)    *)
(* are drawn by the actions from bounded sets; world says which of the     *)
(* bounded input families the outside world offers in this run.            *)
(***************************************************************************)
EXTENDS Integers, Sequences, FiniteSets, TLC

\* ------------------------------------------------------------------ bounds
\* entries (feed entries / cards) the adapters see in a run of the "feeds" world
MaxEntries == 3
\* elements a detail page holds over all its selectors in the "pages" world
MaxEls == 3
\* listings reaching the scorer in the "model" world
MaxRated == 2
\* entries of the long feed of the "bulk" world beyond the detail cap
BulkOver == 7
\* dated feed entries of a run of the "dates" world
MaxDated == 2

\* ------------------------------------------------------- program constants
DETAIL_CAP == 40
TOP_K == 10
MIN_TEXT == 150
MIN_TEXT_V1 == 200
SKIP_LEN == 200
MAX_DESC == 3000
FEED_DESC == 2000
FEED_SUMMARY == 300
MIN_FIT == 5
DEFAULT_FIT == 0
\* is_recent(entry, days=30)
RECENT_DAYS == 30
\* time is counted in hours: a day (86400 seconds) is 24 of them
DAY == 24

Min(a, b) == IF a < b THEN a ELSE b

Progs == {"job_agent", "job_agent_2"}
Worlds == {"feeds", "outage", "pages", "model", "bulk", "dates", "example"}

\* ------------------------------------------------------------ texts, links
\* A text is known by where it came from (kind, sel, idx), its length after
\* strip(), and whether it holds a denylisted phrase: "lower" as the denylist
\* spells it, "upper" in another letter case, "none" not at all.
Text(kind, sel, idx, len, noise) ==
    [kind |-> kind, sel |-> sel, idx |-> idx, len |-> len, noise |-> noise]

\* a key the dict does not have (job.get(...) is None)
Absent == Text("absent", "", 0, 0, "none")

\* text[:n]
Truncate(t, n) == [t EXCEPT !.len = Min(@, n)]

\* text.lower()
Lower(t) == [t EXCEPT !.noise = IF @ = "upper" THEN "lower" ELSE @]

\* any(phrase in text for phrase in noise_phrases): a case-sensitive search
HasNoisePhrase(t) == t.noise = "lower"

\* A URL is <<site, path>>; the empty string is <<>>; a relative href is <<path>>.
NoLink == <<>>
Paths == {1, 2}
HIMALAYAS == "https://himalayas.app"
NOMADS == "https://www.workingnomads.com"

make_absolute(href, base_url) ==
    IF href = <<>> THEN NoLink
    ELSE IF Len(href) = 2 THEN href
    ELSE <<base_url[1], href[1]>>

\* ----------------------------------------------------------------- adapters
\* job_agent_2.scrape_all_boards runs four adapters in this order;
\* job_agent.main runs scrape_board over the five JOB_BOARDS.
AdaptersV2 == <<"We Work Remotely", "Remotive", "Himalayas", "Working Nomads">>
JOB_BOARDS == <<"Indeed", "We Work Remotely", "Remotive", "Himalayas", "Working Nomads">>

Adapters(p) == IF p = "job_agent_2" THEN AdaptersV2 ELSE JOB_BOARDS

IsFeed(p, a) == p = "job_agent_2" /\ a \in {"We Work Remotely", "Remotive"}

BoardUrl(a) ==
    CASE a = "Indeed" -> <<"https://www.indeed.com", 0>>
      [] a = "We Work Remotely" -> <<"https://weworkremotely.com", 0>>
      [] a = "Remotive" -> <<"https://remotive.com", 0>>
      [] a = "Himalayas" -> <<HIMALAYAS, 0>>
      [] OTHER -> <<NOMADS, 0>>

\* ------------------------------------------------------------------- state
VARIABLES
    prog,        \* which program runs: "job_agent" or "job_agent_2"
    world,       \* which bounded family of external inputs this run draws from
    zone,        \* hours the host's local time is ahead of UTC
    recent_call, \* the last is_recent call, if any: its argument and its result
    posts,       \* requests.post calls made to the text-generation endpoint
    pc,          \* where main is
    board,       \* index of the adapter that is running (scrape stage)
    entries,     \* feed entries / cards the adapters have looked at so far
    jobs,        \* the running adapter's local list
    seen,        \* scrape_himalayas: hrefs already taken
    failed,      \* adapters whose outer except clause ran
    all_jobs,    \* merged adapter outputs, in adapter order
    unique,      \* the deduplicated list
    unique_jobs, \* unique[:40], the dicts detail fetch mutates and scoring reads
    i,           \* loop index of the detail loop, then of the scoring loop
    scored,      \* (job, analysis) pairs that passed the filter
    top_10,      \* scored[:10] after the sort
    sent,        \* what send_email was given
    fetch_log,   \* one record per fetch_job_detail call
    score_log    \* oid of the job of every score_job_with_ollama call

vars == <<prog, world, zone, recent_call, posts, pc, board, entries, jobs, seen,
          failed, all_jobs, unique, unique_jobs, i, scored, top_10, sent,
          fetch_log, score_log>>

\* ------------------------------------------------------------------ recency
\* What is_recent reads of an entry.  kind says where a date is found:
\* "parsed" is a published_parsed / updated_parsed struct_time, which is in
\* UTC; "raw" a published / updated string with a zone in it and no
\* struct_time; "raw_utc" such a string with the zone -0000, which
\* parsedate_to_datetime turns into a naive datetime in UTC; "raw_bad" a
\* string parsedate_to_datetime raises on; "body" a long-form date in the
\* summary text and nothing else; "body_bad" such a date that strptime
\* raises on (February 30); "none" no date anywhere.  age is the time in
\* hours from the entry's timestamp to the call (for "body", from the local
\* midnight that starts the day named).
Date(kind, age) == [kind |-> kind, age |-> age]
Undated == Date("none", 0)

DateKinds == {"parsed", "raw", "raw_utc", "raw_bad", "body", "body_bad", "none"}
Unparsable == {"raw_bad", "body_bad", "none"}

\* UTC offsets of the hosts the program is run on
Zones == {-5, 0, 2}

\* time.mktime(published), as hours before time.time(): mktime reads the
\* struct_time as local time, so a UTC struct_time lands off hours away
MktimeAge(date, off) == date.age + off

\* (datetime.now(tz) - parsed).days: whole days, rounded down
DaysOf(hours) == hours \div DAY

\* is_recent(entry, days) on a host off hours ahead of UTC
is_recent(date, days, off) ==
    CASE date.kind = "parsed" -> MktimeAge(date, off) <= days * DAY
      [] date.kind = "raw" -> DaysOf(date.age) <= days
      [] date.kind = "raw_utc" -> DaysOf(date.age + off) <= days
      [] date.kind = "body" -> DaysOf(date.age) <= days
      [] OTHER -> TRUE

\* the dates the entries of the "dates" world carry
DateChoices ==
    {Date(k, 0) : k \in Unparsable} \cup
    {Date(k, h) : k \in DateKinds \ Unparsable,
                  h \in {RECENT_DAYS * DAY, RECENT_DAYS * DAY + 1,
                         (RECENT_DAYS + 1) * DAY}}

\* the assessments of the "example" world, in scoring order: five listings
\* rated 9, 7, 5, 4, 8, the 5 not a backend role, the 4 not remote
ExampleScores == <<9, 7, 5, 4, 8>>

\* ------------------------------------------------------------ feed entries
\* What an adapter reads of one feed entry or card: skip says the adapter's
\* own guards drop it (stale, no title, short or repeated title, a failing
\* element read); href is the entry's link or the card's href; body is the
\* length of the entry's summary text.
Entry(skip, href, body) ==
    [skip |-> skip, href |-> href, body |-> body, date |-> Undated]

\* a feed entry with a title, a link and a body, dated as given
DatedEntry(date) == [Entry(FALSE, <<HIMALAYAS, 1>>, 201) EXCEPT !.date = date]

BulkLen == DETAIL_CAP + BulkOver

\* the n-th entry of the long feed: every eighth link repeats the one before
BulkEntry(n) ==
    Entry(FALSE, <<HIMALAYAS, IF n % 8 = 0 THEN n - 1 ELSE n>>,
          IF n % 3 = 0 THEN 0 ELSE 2500)

EntryLimit(w) ==
    CASE w \in {"feeds", "outage"} -> MaxEntries
      [] w = "pages" -> 1
      [] w = "model" -> MaxRated
      [] w = "dates" -> MaxDated
      [] w = "example" -> Len(ExampleScores)
      [] OTHER -> BulkLen

FeedBodies(w) == IF w = "pages" THEN {0, 200, 201, 3001} ELSE {201}

PathsOf(w) == IF w = "pages" THEN {1} ELSE Paths

\* the entries adapter a of program p may be shown as the n-th entry of the run
EntryChoices(w, p, a, n) ==
    CASE w = "bulk" ->
           IF a = Adapters(p)[1] THEN {BulkEntry(n)} ELSE {}
      [] w = "model" ->
           IF a = "Working Nomads" THEN {Entry(FALSE, <<HIMALAYAS, n>>, 0)} ELSE {}
      [] w = "outage" -> {Entry(FALSE, <<HIMALAYAS, n>>, 201)}
      [] w = "example" ->
           IF a = "Working Nomads" THEN {Entry(FALSE, <<NOMADS, n>>, 0)} ELSE {}
      [] w = "dates" ->
           IF IsFeed(p, a) THEN {DatedEntry(d) : d \in DateChoices} ELSE {}
      [] w = "pages" /\ a \in {"Indeed", "Remotive"} -> {}
      [] w = "pages" /\ p = "job_agent" /\ a = "We Work Remotely" -> {}
      [] OTHER ->
           {Entry(TRUE, <<1>>, 0)} \cup
           IF IsFeed(p, a)
           THEN {Entry(FALSE, NoLink, 201)} \cup
                {Entry(FALSE, <<HIMALAYAS, x>>, b) : x \in PathsOf(w), b \in FeedBodies(w)}
           ELSE IF p = "job_agent_2" /\ a = "Himalayas"
           THEN {Entry(FALSE, <<x>>, 0) : x \in PathsOf(w)}
           ELSE {Entry(FALSE, NoLink, 0), Entry(FALSE, <<HIMALAYAS, 1>>, 0),
                 Entry(FALSE, <<1>>, 0)}

Summary(len) == Text("summary", "", 0, len, "none")

Job(oid, company, link, summary, description, source) ==
    [oid |-> oid, title |-> "title", company |-> company, link |-> link,
     salary |-> "", summary |-> summary, description |-> description,
     source |-> source]

\* (variant: the dict gets no description)
FeedJobNoDescription(a, e, oid) ==
    Job(oid, "company", e.href,
        Summary(Min(Min(e.body, FEED_DESC), FEED_SUMMARY)), Absent, a)

\* scrape_weworkremotely_rss / scrape_remotive_rss: the dict of one entry
FeedJob(a, e, oid) ==
    Job(oid, "company", e.href,
        Summary(Min(Min(e.body, FEED_DESC), FEED_SUMMARY)),
        Truncate(Text("feed", "", 0, e.body, "none"), FEED_DESC), a)

\* scrape_himalayas / scrape_workingnomads / scrape_board: the dict of one card
CardJob(p, a, e, oid) ==
    Job(oid, IF p = "job_agent_2" THEN "company" ELSE "absent",
        make_absolute(e.href, BoardUrl(a)), Summary(40), Absent, a)

\* the guards of one loop iteration that decide whether the entry is appended
Appends(p, a, e) ==
    /\ IsFeed(p, a) => is_recent(e.date, RECENT_DAYS, zone)
    /\ ~e.skip
    /\ IsFeed(p, a) => e.href # NoLink
    /\ (p = "job_agent_2" /\ a = "Himalayas") => e.href \notin seen

Init ==
    /\ prog \in Progs
    /\ world \in Worlds
    /\ zone \in (IF world = "dates" THEN Zones ELSE {0})
    /\ recent_call = <<>>
    /\ posts = 0
    /\ pc = "scrape"
    /\ board = 1
    /\ entries = 0
    /\ jobs = <<>>
    /\ seen = {}
    /\ failed = {}
    /\ all_jobs = <<>>
    /\ unique = <<>>
    /\ unique_jobs = <<>>
    /\ i = 1
    /\ scored = <<>>
    /\ top_10 = <<>>
    /\ sent = <<>>
    /\ fetch_log = <<>>
    /\ score_log = <<>>

\* ------------------------------------------------------------ scrape stage
\* One iteration of the running adapter's loop over entries / cards.
AdapterEntry ==
    /\ pc = "scrape"
    /\ entries < EntryLimit(world)
    /\ LET a == Adapters(prog)[board]
       IN \E e \in EntryChoices(world, prog, a, entries + 1) :
            /\ entries' = entries + 1
            /\ jobs' = IF Appends(prog, a, e)
                       THEN Append(jobs, IF IsFeed(prog, a)
                                         THEN FeedJob(a, e, entries + 1)
                                         ELSE CardJob(prog, a, e, entries + 1))
                       ELSE jobs
            /\ seen' = IF prog = "job_agent_2" /\ a = "Himalayas" /\ ~e.skip
                       THEN seen \cup {e.href} ELSE seen
            /\ recent_call' =
                  IF IsFeed(prog, a)
                  THEN <<[date |-> e.date, days |-> RECENT_DAYS,
                          result |-> is_recent(e.date, RECENT_DAYS, zone)]>>
                  ELSE recent_call
    /\ UNCHANGED <<prog, world, zone, posts, pc, board, failed, all_jobs, unique,
                   unique_jobs, i, scored, top_10, sent, fetch_log, score_log>>

\* the adapter returns its list to the caller, which merges it
ReturnJobs ==
    /\ all_jobs' = all_jobs \o jobs
    /\ jobs' = <<>>
    /\ seen' = {}
    /\ IF board < Len(Adapters(prog))
       THEN board' = board + 1 /\ pc' = pc
       ELSE board' = board /\ pc' = "dedup"

\* the adapter's loop runs out of entries
AdapterDone ==
    /\ pc = "scrape"
    /\ ReturnJobs
    /\ UNCHANGED <<prog, world, zone, posts, recent_call, entries, failed,
                   unique, unique_jobs, i, scored, top_10, sent, fetch_log,
                   score_log>>

\* (variant: a failing adapter hands back nothing)
AdapterFailLosesJobs ==
    /\ pc = "scrape"
    /\ world = "outage"
    /\ failed' = failed \cup {board}
    /\ all_jobs' = all_jobs
    /\ jobs' = <<>>
    /\ seen' = {}
    /\ IF board < Len(Adapters(prog))
       THEN board' = board + 1 /\ pc' = pc
       ELSE board' = board /\ pc' = "dedup"
    /\ UNCHANGED <<prog, world, zone, posts, recent_call, entries, unique,
                   unique_jobs, i, scored, top_10, sent, fetch_log, score_log>>

\* feed pull, navigation or query raises: the adapter's outer except clause
\* logs it and the adapter returns what it has collected
AdapterFail ==
    /\ pc = "scrape"
    /\ world = "outage"
    /\ failed' = failed \cup {board}
    /\ ReturnJobs
    /\ UNCHANGED <<prog, world, zone, posts, recent_call, entries, unique,
                   unique_jobs, i, scored, top_10, sent, fetch_log, score_log>>

\* ------------------------------------------------------------- normalizer
\* The dedup loop: seen is the set of links taken, out the list built so far.
RECURSIVE DedupLoop(_, _, _, _)
DedupLoop(list, k, seenLinks, out) ==
    IF k > Len(list) THEN out
    ELSE LET job == list[k]
         IN IF job.link # NoLink /\ job.link \notin seenLinks
            THEN DedupLoop(list, k + 1, seenLinks \cup {job.link}, Append(out, job))
            ELSE DedupLoop(list, k + 1, seenLinks, out)

\* (variant: seen is never added to)
RECURSIVE DedupLoopForgetful(_, _, _)
DedupLoopForgetful(list, k, out) ==
    IF k > Len(list) THEN out
    ELSE DedupLoopForgetful(list, k + 1,
             IF list[k].link # NoLink THEN Append(out, list[k]) ELSE out)

DedupByLinkForgetful(list) == DedupLoopForgetful(list, 1, <<>>)

\* (variant: the test on job["link"] being non-empty is missing)
RECURSIVE DedupLoopAnyLink(_, _, _, _)
DedupLoopAnyLink(list, k, seenLinks, out) ==
    IF k > Len(list) THEN out
    ELSE IF list[k].link \notin seenLinks
         THEN DedupLoopAnyLink(list, k + 1, seenLinks \cup {list[k].link},
                               Append(out, list[k]))
         ELSE DedupLoopAnyLink(list, k + 1, seenLinks, out)

DedupByLinkAnyLink(list) == DedupLoopAnyLink(list, 1, {}, <<>>)

\* (variant: seen holds only the link taken last)
RECURSIVE DedupLoopLastOnly(_, _, _, _)
DedupLoopLastOnly(list, k, seenLinks, out) ==
    IF k > Len(list) THEN out
    ELSE IF list[k].link # NoLink /\ list[k].link \notin seenLinks
         THEN DedupLoopLastOnly(list, k + 1, {list[k].link}, Append(out, list[k]))
         ELSE DedupLoopLastOnly(list, k + 1, seenLinks, out)

DedupByLinkLastOnly(list) == DedupLoopLastOnly(list, 1, {}, <<>>)

DedupByLink(list) == DedupLoop(list, 1, {}, <<>>)

\* (variant: one element too many)
PrefixOneMore(list, n) == SubSeq(list, 1, Min(n + 1, Len(list)))

\* list[:n]
Prefix(list, n) == SubSeq(list, 1, Min(n, Len(list)))

\* job_agent_2: the tail of scrape_all_boards; job_agent: the loop in main
Dedup ==
    /\ pc = "dedup"
    /\ unique' = DedupByLink(all_jobs)
    /\ pc' = "cap"
    /\ UNCHANGED <<prog, world, zone, posts, recent_call, board, entries, jobs,
                   seen, failed, all_jobs, unique_jobs, i, scored, top_10, sent,
                   fetch_log, score_log>>

\* (variant: the slice is missing)
CapForgotten ==
    /\ pc = "cap"
    /\ unique_jobs' = unique
    /\ i' = 1
    /\ pc' = "detail"
    /\ UNCHANGED <<prog, world, zone, posts, recent_call, board, entries, jobs,
                   seen, failed, all_jobs, unique, scored, top_10, sent,
                   fetch_log, score_log>>

\* unique_jobs = all_jobs[:40] / unique_jobs = unique_jobs[:40]
Cap ==
    /\ pc = "cap"
    /\ unique_jobs' = Prefix(unique, DETAIL_CAP)
    /\ i' = 1
    /\ pc' = "detail"
    /\ UNCHANGED <<prog, world, zone, posts, recent_call, board, entries, jobs,
                   seen, failed, all_jobs, unique, scored, top_10, sent,
                   fetch_log, score_log>>

\* ----------------------------------------------------------- detail pages
\* What a detail page answers: nav is whether goto and the wait succeed;
\* dom gives, per selector, whether the query raises and the elements it
\* returns in document order; an element either raises when its text is
\* read or has a text of some length and noise.
El(raises, len, noise) == [raises |-> raises, len |-> len, noise |-> noise]
Query(raises, els) == [raises |-> raises, els |-> els]

source_selectors(source) ==
    CASE source = "We Work Remotely" ->
           <<"#job-listing", ".listing-container > div:first-child", "section.job",
             "div.job">>
      [] source = "Remotive" ->
           <<".job-description", "[class*='JobDescription']", "article">>
      [] source = "Himalayas" ->
           <<"[class*='description']", "[class*='JobDescription']", "article">>
      [] source = "Working Nomads" ->
           <<".job-description", "article", "main">>
      [] OTHER -> <<>>

generic_selectors ==
    <<".job-description", "#job-description", "[class*='job-description']",
      "[class*='jobDescription']", "article", "main">>

selectors_v1 ==
    <<"[class*='description']", "[class*='content']", "article", "main", "body">>

Range(f) == {f[x] : x \in DOMAIN f}

AllSelectors ==
    Range(generic_selectors) \cup Range(selectors_v1) \cup
    UNION {Range(source_selectors(a)) : a \in Range(JOB_BOARDS)}

\* (variant: the two lists concatenated the other way round)
SelectorsGenericFirst(source) == generic_selectors \o source_selectors(source)

\* selectors = source_selectors.get(source, []) + generic_selectors
Selectors(source) == source_selectors(source) \o generic_selectors

SelectorList(p, source) == IF p = "job_agent_2" THEN Selectors(source) ELSE selectors_v1

Page(nav, dom) == [nav |-> nav, dom |-> dom]

NoMatch == Query(FALSE, <<>>)
BlankPage == Page(TRUE, [sel \in AllSelectors |-> NoMatch])
DownPage == Page(FALSE, [sel \in AllSelectors |-> NoMatch])

\* the two selectors whose answers vary in the "pages" world: the first is
\* specific to Himalayas (and job_agent's first), the second generic
LiveSpecific == "[class*='description']"
LiveGeneric == "main"

ElChoices ==
    {El(TRUE, 0, "none"), El(FALSE, 149, "none"), El(FALSE, 150, "none"),
     El(FALSE, 201, "upper"), El(FALSE, 3001, "none")}

SeqsUpTo(S, n) == UNION {[1..k -> S] : k \in 0..n}

\* the answers of one selector with at most n elements
QueryChoices(n) ==
    {Query(TRUE, <<>>)} \cup {Query(FALSE, q) : q \in SeqsUpTo(ElChoices, n)}

LivePage(q1, q2) ==
    Page(TRUE, [sel \in AllSelectors |->
                  IF sel = LiveSpecific THEN q1
                  ELSE IF sel = LiveGeneric THEN q2 ELSE NoMatch])

\* a page on which every query raises
BrokenPage == Page(TRUE, [sel \in AllSelectors |-> Query(TRUE, <<>>)])

RichPages ==
    {DownPage, BrokenPage} \cup
    UNION {{LivePage(q1, q2) : q2 \in QueryChoices(MaxEls - Len(q1.els))} :
              q1 \in QueryChoices(MaxEls)}

\* the page of the long feed's n-th listing: a long posting body under
\* "article" for even paths, nothing for odd ones
BulkPage(job) ==
    IF job.link[2] % 2 = 0
    THEN Page(TRUE, [sel \in AllSelectors |->
                       IF sel = "article"
                       THEN Query(FALSE, <<El(FALSE, 3001, "none")>>) ELSE NoMatch])
    ELSE BlankPage

PageChoices(w, job) ==
    CASE w = "pages" -> RichPages
      [] w = "bulk" -> {BulkPage(job)}
      [] OTHER -> {BlankPage}

\* --------------------------------------------------------- detail fetcher
\* (await el.inner_text()).strip() of the k-th element of selector sel
InnerText(sel, k, el) == Text("page", sel, k, el.len, el.noise)

\* (variant: the phrases searched in the text as it is, not lower-cased)
AcceptsNoLower(t) == ~(t.len < MIN_TEXT) /\ ~HasNoisePhrase(t)

\* job_agent_2: the two continue tests, negated
Accepts(t) == ~(t.len < MIN_TEXT) /\ ~HasNoisePhrase(Lower(t))

\* job_agent: if len(text) > 200
AcceptsV1(t) == t.len > MIN_TEXT_V1

\* the result of scanning: hit says a text was accepted, at = <<s, k>> is the
\* position of the selector in the list and of the element in its query,
\* read is the positions whose text was asked for, in order
Scan(hit, at, read) == [hit |-> hit, at |-> at, read |-> read]

\* job_agent_2, the inner loop: for el in els
RECURSIVE ScanEls(_, _, _, _, _)
ScanEls(sel, s, els, k, read) ==
    IF k > Len(els) THEN Scan(FALSE, <<s, 0>>, read)
    ELSE IF els[k].raises THEN Scan(FALSE, <<s, -1>>, Append(read, <<s, k>>))
    ELSE IF Accepts(InnerText(sel, k, els[k]))
         THEN Scan(TRUE, <<s, k>>, Append(read, <<s, k>>))
         ELSE ScanEls(sel, s, els, k + 1, Append(read, <<s, k>>))

\* job_agent_2, the outer loop: for selector in selectors, each in its own try
RECURSIVE ScanSelectors(_, _, _, _)
ScanSelectors(dom, sels, s, read) ==
    IF s > Len(sels) THEN Scan(FALSE, <<0, 0>>, read)
    ELSE LET q == dom[sels[s]]
         IN IF q.raises THEN ScanSelectors(dom, sels, s + 1, read)
            ELSE LET r == ScanEls(sels[s], s, q.els, 1, read)
                 IN IF r.hit THEN r ELSE ScanSelectors(dom, sels, s + 1, r.read)

\* job_agent: for selector in [...]: el = query_selector(selector); any raise
\* leaves the loop through the outer except
RECURSIVE ScanSelectorsV1(_, _, _, _)
ScanSelectorsV1(dom, sels, s, read) ==
    IF s > Len(sels) THEN Scan(FALSE, <<0, 0>>, read)
    ELSE LET q == dom[sels[s]]
         IN IF q.raises THEN Scan(FALSE, <<s, -1>>, read)
            ELSE IF q.els = <<>> THEN ScanSelectorsV1(dom, sels, s + 1, read)
            ELSE IF q.els[1].raises THEN Scan(FALSE, <<s, -1>>, Append(read, <<s, 1>>))
            ELSE IF AcceptsV1(InnerText(sels[s], 1, q.els[1]))
                 THEN Scan(TRUE, <<s, 1>>, Append(read, <<s, 1>>))
                 ELSE ScanSelectorsV1(dom, sels, s + 1, Append(read, <<s, 1>>))

\* (variant: a description of SKIP_LEN characters is already long enough)
VisitsBelowSkipLen(p, job) ==
    /\ ~(p = "job_agent_2" /\ job.description.len > 0 /\ job.description.len >= SKIP_LEN)
    /\ job.link # NoLink

\* the early returns of fetch_job_detail: TRUE when the page is visited
Visits(p, job) ==
    /\ ~(p = "job_agent_2" /\ job.description.len > 0 /\ job.description.len > SKIP_LEN)
    /\ job.link # NoLink

\* (variant: the text is stored whole)
StoreTextWhole(job, t) == [job EXCEPT !.description = t]

\* (variant: the summary is overwritten along with the description)
StoreTextAndSummary(job, t) ==
    [job EXCEPT !.description = Truncate(t, MAX_DESC),
                !.summary = Truncate(t, FEED_SUMMARY)]

\* job["description"] = text[:3000]
StoreText(job, t) == [job EXCEPT !.description = Truncate(t, MAX_DESC)]

\* (variant: a miss clears the description)
AfterScanLosesOnMiss(p, job, page, r) ==
    IF r.hit
    THEN StoreText(job, InnerText(SelectorList(p, job.source)[r.at[1]], r.at[2],
                                  page.dom[SelectorList(p, job.source)[r.at[1]]].els[r.at[2]]))
    ELSE [job EXCEPT !.description = Absent]

\* what the scan leaves in the dict
AfterScan(p, job, page, r) ==
    IF r.hit
    THEN StoreText(job, InnerText(SelectorList(p, job.source)[r.at[1]], r.at[2],
                                  page.dom[SelectorList(p, job.source)[r.at[1]]].els[r.at[2]]))
    ELSE job

\* fetch_job_detail(page, job): the dict afterwards and what was looked at
fetch_job_detail(p, page, job) ==
    IF ~Visits(p, job) \/ ~page.nav
    THEN [job |-> job, visited |-> Visits(p, job), raised |-> FALSE,
          scan |-> Scan(FALSE, <<0, 0>>, <<>>)]
    ELSE LET r == IF p = "job_agent_2"
                  THEN ScanSelectors(page.dom, SelectorList(p, job.source), 1, <<>>)
                  ELSE ScanSelectorsV1(page.dom, SelectorList(p, job.source), 1, <<>>)
         IN [job |-> AfterScan(p, job, page, r), visited |-> TRUE, raised |-> FALSE,
             scan |-> r]

\* One iteration of the detail loop of main.
FetchDetail ==
    /\ pc = "detail"
    /\ i <= Len(unique_jobs)
    /\ LET job == unique_jobs[i]
       IN \E page \in IF Visits(prog, job) THEN PageChoices(world, job) ELSE {BlankPage} :
            LET r == fetch_job_detail(prog, page, job)
            IN /\ unique_jobs' = [unique_jobs EXCEPT ![i] = r.job]
               /\ fetch_log' = Append(fetch_log,
                      [before |-> job, after |-> r.job, page |-> page,
                       visited |-> r.visited, scan |-> r.scan, raised |-> r.raised])
               /\ IF r.raised
                  THEN pc' = "crashed" /\ i' = i
                  ELSE pc' = pc /\ i' = i + 1
    /\ UNCHANGED <<prog, world, zone, posts, recent_call, board, entries, jobs,
                   seen, failed, all_jobs, unique, scored, top_10, sent,
                   score_log>>

\* (variant: the scoring loop is entered with detail fetches outstanding)
CloseBrowserEarly ==
    /\ pc = "detail"
    /\ pc' = "score"
    /\ i' = 1
    /\ UNCHANGED <<prog, world, zone, posts, recent_call, board, entries, jobs,
                   seen, failed, all_jobs, unique, unique_jobs, scored, top_10,
                   sent, fetch_log, score_log>>

\* await browser.close(), after the detail loop
CloseBrowser ==
    /\ pc = "detail"
    /\ i > Len(unique_jobs)
    /\ pc' = "score"
    /\ i' = 1
    /\ UNCHANGED <<prog, world, zone, posts, recent_call, board, entries, jobs,
                   seen, failed, all_jobs, unique, unique_jobs, scored, top_10,
                   sent, fetch_log, score_log>>

\* ---------------------------------------------------------- model responses
\* What the text-generation endpoint answers.  how is "error" when the POST
\* raises or times out or the body has no "response" text, "garbage" when
\* the text is not JSON, "falsy" when it is JSON null, 0, "", [] or {},
\* "nonobject" when it is any other JSON value that is not an object, and
\* "object" for a JSON object.  For an object, a flag is "true", "false" or
\* "str" (a non-empty string such as "no"); fit_kind is "int", "absent" or
\* "str", and fit_score the integer when there is one.
Response(how, is_backend, is_remote, fit_kind, fit_score) ==
    [how |-> how, is_backend |-> is_backend, is_remote |-> is_remote,
     fit_kind |-> fit_kind, fit_score |-> fit_score]

Plain(how) == Response(how, "false", "false", "absent", 0)
Good(score) == Response("object", "true", "true", "int", score)

Flags == {"true", "false", "str"}

RichResponses ==
    {Plain("error"), Plain("garbage"), Plain("falsy"), Plain("nonobject")} \cup
    {Response("object", b, r, "int", n) : b \in Flags, r \in Flags, n \in {4, 5}} \cup
    {Good(6), Response("object", "true", "true", "absent", 0),
     Response("object", "true", "true", "str", 0),
     Response("object", "false", "true", "str", 0)}

\* the verdict on the long feed's n-th listing
BulkResponse(job) ==
    Response("object", IF job.link[2] % 5 = 0 THEN "false" ELSE "true", "true",
             "int", 4 + (job.link[2] % 7))

\* the verdict on the n-th listing of the "example" world
ExampleResponse(job) ==
    LET score == ExampleScores[job.link[2]]
    IN Response("object", IF score = 5 THEN "false" ELSE "true",
                IF score = 4 THEN "false" ELSE "true", "int", score)

ResponseChoices(w, job) ==
    CASE w = "model" -> RichResponses
      [] w = "bulk" -> {BulkResponse(job)}
      [] w = "example" -> {ExampleResponse(job)}
      [] w = "feeds" -> {Good(IF job.link[1] = NOMADS THEN 8 ELSE 5 + job.link[2])}
      [] w = "pages" -> {Good(7)}
      [] OTHER -> {Good(6)}

\* --------------------------------------------------------- scoring client
None == Plain("None")

\* score_job_with_ollama(job): the parsed value, or None from the except clause
score_job_with_ollama(job, resp) ==
    IF resp.how \in {"error", "garbage"} THEN None ELSE resp

\* bool(x) of Python for the values a flag takes here
Truthy(flag) == flag \in {"true", "str"}

\* analysis.get("fit_score", 0)
FitOf(analysis) == IF analysis.fit_kind = "absent" THEN DEFAULT_FIT ELSE analysis.fit_score

\* (variant: the test on is_backend is missing)
FilterNoBackendTest(analysis) ==
    IF analysis.how \in {"None", "falsy"} THEN "skip"
    ELSE IF analysis.how = "nonobject" THEN "raise"
    ELSE IF ~Truthy(analysis.is_remote) THEN "skip"
    ELSE IF analysis.fit_kind = "str" THEN "raise"
    ELSE IF FitOf(analysis) < MIN_FIT THEN "skip"
    ELSE "keep"

\* The filter of main on what the scorer returned: "skip" is a continue,
\* "keep" the append, "raise" an exception leaving main (.get on a value
\* that is not a dict, or < between a non-number and 5).
Filter(analysis) ==
    IF analysis.how \in {"None", "falsy"} THEN "skip"
    ELSE IF analysis.how = "nonobject" THEN "raise"
    ELSE IF ~Truthy(analysis.is_backend) THEN "skip"
    ELSE IF ~Truthy(analysis.is_remote) THEN "skip"
    ELSE IF analysis.fit_kind = "str" THEN "raise"
    ELSE IF FitOf(analysis) < MIN_FIT THEN "skip"
    ELSE "keep"

\* (variant: a listing whose scoring gave None is scored a second time)
ScoreJobRetriesOnce ==
    /\ pc = "score"
    /\ i <= Len(unique_jobs)
    /\ LET job == unique_jobs[i]
       IN \E resp \in ResponseChoices(world, job) :
            LET analysis == score_job_with_ollama(job, resp)
                verdict == Filter(analysis)
                again == /\ analysis.how = "None"
                         /\ \A k \in DOMAIN score_log : score_log[k].job.oid # job.oid
            IN /\ score_log' = Append(score_log,
                      [job |-> job, resp |-> resp, analysis |-> analysis,
                       verdict |-> verdict])
               /\ scored' = IF verdict = "keep"
                             THEN Append(scored, <<job, analysis>>) ELSE scored
               /\ posts' = posts + 1
               /\ IF verdict = "raise"
                  THEN pc' = "crashed" /\ i' = i
                  ELSE pc' = pc /\ i' = IF again THEN i ELSE i + 1
    /\ UNCHANGED <<prog, world, zone, recent_call, board, entries, jobs, seen,
                   failed, all_jobs, unique, unique_jobs, top_10, sent,
                   fetch_log>>

\* One iteration of the scoring loop of main.
ScoreJob ==
    /\ pc = "score"
    /\ i <= Len(unique_jobs)
    /\ LET job == unique_jobs[i]
       IN \E resp \in ResponseChoices(world, job) :
            LET analysis == score_job_with_ollama(job, resp)
                verdict == Filter(analysis)
            IN /\ score_log' = Append(score_log,
                      [job |-> job, resp |-> resp, analysis |-> analysis,
                       verdict |-> verdict])
               /\ scored' = IF verdict = "keep"
                             THEN Append(scored, <<job, analysis>>) ELSE scored
               /\ posts' = posts + 1
               /\ IF verdict = "raise"
                  THEN pc' = "crashed" /\ i' = i
                  ELSE pc' = pc /\ i' = i + 1
    /\ UNCHANGED <<prog, world, zone, recent_call, board, entries, jobs, seen,
                   failed, all_jobs, unique, unique_jobs, top_10, sent,
                   fetch_log>>

\* ------------------------------------------------------------------- rank
\* key=lambda x: x[1].get("fit_score", 0)
Key(pair) == FitOf(pair[2])

\* (variant: the pair goes in front of its equals)
InsertBeforeEquals(sorted, pair) ==
    LET n == Cardinality({k \in 1..Len(sorted) : Key(sorted[k]) > Key(pair)})
    IN SubSeq(sorted, 1, n) \o <<pair>> \o SubSeq(sorted, n + 1, Len(sorted))

\* insert pair into a list sorted by Key descending, behind its equals
Insert(sorted, pair) ==
    LET n == Cardinality({k \in 1..Len(sorted) : Key(sorted[k]) >= Key(pair)})
    IN SubSeq(sorted, 1, n) \o <<pair>> \o SubSeq(sorted, n + 1, Len(sorted))

\* scored.sort(key=..., reverse=True): a stable sort, largest key first
RECURSIVE SortLoop(_, _, _)
SortLoop(list, k, sorted) ==
    IF k > Len(list) THEN sorted ELSE SortLoop(list, k + 1, Insert(sorted, list[k]))

SortByFitScore(list) == SortLoop(list, 1, <<>>)

\* the sort and top_10 = scored[:10], after the scoring loop
Rank ==
    /\ pc = "score"
    /\ i > Len(unique_jobs)
    /\ scored' = SortByFitScore(scored)
    /\ top_10' = Prefix(scored', TOP_K)
    /\ pc' = "send"
    /\ UNCHANGED <<prog, world, zone, posts, recent_call, board, entries, jobs,
                   seen, failed, all_jobs, unique, unique_jobs, i, sent,
                   fetch_log, score_log>>

\* send_email(top_10): the shortlist leaves the pipeline
SendEmail ==
    /\ pc = "send"
    /\ sent' = top_10
    /\ pc' = "done"
    /\ UNCHANGED <<prog, world, zone, posts, recent_call, board, entries, jobs,
                   seen, failed, all_jobs, unique, unique_jobs, i, scored,
                   top_10, fetch_log, score_log>>

Next ==
    \/ AdapterEntry
    \/ AdapterDone
    \/ AdapterFail
    \/ Dedup
    \/ Cap
    \/ FetchDetail
    \/ CloseBrowser
    \/ ScoreJob
    \/ Rank
    \/ SendEmail

Spec == Init /\ [][Next]_vars

\* main is one sequential coroutine: while a step is possible (the external
\* call it waits on returns or fails) the step is eventually taken
FairSpec == Spec /\ WF_vars(Next)

\* ================================================================ properties
\* all_jobs and unique are written for the last time by Dedup, scored and
\* top_10 by Rank: what holds of them in the state after holds from then on
Normalized == pc = "cap"
Ranked == pc = "send"

Oids(list) == {list[k].oid : k \in DOMAIN list}
PairOids(list) == {list[k][1].oid : k \in DOMAIN list}

\* index in all_jobs of the first listing that carries this link
FirstWith(link) ==
    CHOOSE k \in DOMAIN all_jobs :
        /\ all_jobs[k].link = link
        /\ \A j \in 1..(k - 1) : all_jobs[j].link # link

\* index in list of the listing with this oid
IndexOf(list, oid) == CHOOSE k \in DOMAIN list : list[k].oid = oid

\* C1: once the normalizer has run, its output holds exactly one entry for
\* every non-empty link of the merged adapter outputs and nothing else, that
\* entry is the first listing of the merged sequence with the link, and the
\* entries stand in the order they had in the merged sequence.
C1_DedupFirstOccurrence ==
    Normalized =>
        /\ \A k \in DOMAIN all_jobs :
              all_jobs[k].link # NoLink =>
                 Cardinality({m \in DOMAIN unique : unique[m].link = all_jobs[k].link}) = 1
        /\ \A m \in DOMAIN unique :
              /\ unique[m].link # NoLink
              /\ \E k \in DOMAIN all_jobs : all_jobs[k].link = unique[m].link
              /\ unique[m] = all_jobs[FirstWith(unique[m].link)]
        /\ \A m, n \in DOMAIN unique :
              m < n => FirstWith(unique[m].link) < FirstWith(unique[n].link)

\* a merged sequence with a repeated link and a second link behind it
C1_Witness ==
    /\ Normalized
    /\ Len(unique) >= 2
    /\ \E j, k, n \in DOMAIN all_jobs :
          /\ j < k /\ k < n
          /\ all_jobs[j].link # NoLink
          /\ all_jobs[j].link = all_jobs[k].link
          /\ all_jobs[n].link \notin {NoLink, all_jobs[j].link}

\* the analysis of a pair says: backend, remote, fit score at least 5
Admissible(analysis) ==
    /\ analysis.how = "object"
    /\ analysis.is_backend = "true"
    /\ analysis.is_remote = "true"
    /\ analysis.fit_kind = "int"
    /\ analysis.fit_score >= 5

\* C2 (as claimed): a scored listing's pair is in the scored set if and only
\* if its assessment has isBackend true, isRemote true and fitScore >= 5; a
\* pair failing one of the three, or without a fitScore, is never shortlisted.
C2_AdmissionRule ==
    /\ \A k \in DOMAIN score_log :
          (\E m \in DOMAIN scored : scored[m][1].oid = score_log[k].job.oid)
             <=> Admissible(score_log[k].resp)
    /\ \A m \in DOMAIN top_10 : Admissible(top_10[m][2])

\* the pairs the scoring loop kept, in scoring order
KeptLog == SelectSeq(score_log, LAMBDA rec : rec.verdict = "keep")

\* C3: after the sort the kept pairs stand by fitScore, largest first, and
\* pairs of equal fitScore stand in the order they were scored in, which is
\* the order of their listings in the normalized sequence; the sort neither
\* loses nor adds a pair.
C3_StableDescending ==
    Ranked =>
        /\ Len(scored) = Len(KeptLog)
        /\ \A k \in DOMAIN KeptLog :
              \E m \in DOMAIN scored :
                 scored[m] = <<KeptLog[k].job, KeptLog[k].analysis>>
        /\ \A m, n \in DOMAIN scored :
              m < n =>
                 /\ scored[m][2].fit_score >= scored[n][2].fit_score
                 /\ scored[m][2].fit_score = scored[n][2].fit_score =>
                       /\ IndexOf(unique, scored[m][1].oid) < IndexOf(unique, scored[n][1].oid)
                       /\ \E a, b \in DOMAIN KeptLog :
                             /\ a < b
                             /\ KeptLog[a].job.oid = scored[m][1].oid
                             /\ KeptLog[b].job.oid = scored[n][1].oid

\* a sort that moved a later pair in front of two equal ones
C3_Witness ==
    /\ Ranked
    /\ \E m, n \in DOMAIN scored :
          m < n /\ scored[m][2].fit_score = scored[n][2].fit_score
    /\ \E a, b \in DOMAIN KeptLog :
          a < b /\ KeptLog[a].analysis.fit_score < KeptLog[b].analysis.fit_score

\* the response is a JSON object with boolean flags and an integer fit score
WellFormed(resp) ==
    /\ resp.how = "object"
    /\ resp.is_backend \in {"true", "false"}
    /\ resp.is_remote \in {"true", "false"}
    /\ resp.fit_kind = "int"

\* C4 (as claimed): whatever goes wrong in scoring one listing (transport
\* error, text that is no JSON, JSON that is not an object with fields of
\* the expected types), that listing gets no assessment and is not kept, and
\* main does not abort: the loop goes on and the rank stage is reached.
C4_ScoringFailureAbsorbed ==
    /\ pc # "crashed"
    /\ \A k \in DOMAIN score_log :
          ~WellFormed(score_log[k].resp) => score_log[k].verdict = "skip"

\* C5: the shortlist is the first min(10, number of kept pairs) pairs of the
\* ranked sequence, so it is never longer than 10 and no kept pair left out
\* of it has a higher fitScore than a pair in it; send_email gets this list.
C5_TopTenPrefix ==
    /\ Len(top_10) <= 10
    /\ Len(sent) <= 10
    /\ pc = "done" => sent = top_10
    /\ Ranked =>
          /\ Len(top_10) = IF Len(scored) < 10 THEN Len(scored) ELSE 10
          /\ \A k \in DOMAIN top_10 : top_10[k] = scored[k]
          /\ \A k \in DOMAIN scored : \A m \in DOMAIN top_10 :
                k > Len(top_10) => scored[k][2].fit_score <= top_10[m][2].fit_score

\* more than ten pairs were kept and ten were sent
C5_Witness ==
    /\ pc = "done"
    /\ Len(scored) > 10
    /\ Len(sent) = 10

\* oids of the listings behind position 40 of the normalized sequence
Beyond40 == {unique[k].oid : k \in {n \in DOMAIN unique : n > 40}}

\* C6: fetch_job_detail and score_job_with_ollama are each called on at most
\* 40 listings, the k-th call on the k-th listing of the normalized sequence;
\* a listing behind position 40 is never fetched, scored or shortlisted.
C6_DetailCap ==
    /\ Len(fetch_log) <= 40
    /\ Len(score_log) <= 40
    /\ \A k \in DOMAIN fetch_log : fetch_log[k].before.oid = unique[k].oid
    /\ \A k \in DOMAIN score_log : score_log[k].job.oid = unique[k].oid
    /\ Beyond40 \cap (PairOids(scored) \cup PairOids(top_10) \cup PairOids(sent)) = {}
    /\ Beyond40 \cap {fetch_log[k].before.oid : k \in DOMAIN fetch_log} = {}
    /\ Beyond40 \cap {score_log[k].job.oid : k \in DOMAIN score_log} = {}

\* a run with more than 40 normalized listings that fetched and scored 40
C6_Witness ==
    /\ pc = "done"
    /\ Len(unique) > 40
    /\ Len(fetch_log) = 40
    /\ Len(score_log) = 40
    /\ Len(sent) > 0

\* oids of the merged listings that carry no link
Linkless == {all_jobs[k].oid : k \in {n \in DOMAIN all_jobs : all_jobs[n].link = NoLink}}

\* C7: a listing without a link is not in the normalizer's output and is
\* never detail-fetched, scored, kept or shortlisted.
C7_NoLinkDropped ==
    /\ Linkless \cap (Oids(unique) \cup Oids(unique_jobs)) = {}
    /\ Linkless \cap {fetch_log[k].before.oid : k \in DOMAIN fetch_log} = {}
    /\ Linkless \cap {score_log[k].job.oid : k \in DOMAIN score_log} = {}
    /\ Linkless \cap (PairOids(scored) \cup PairOids(top_10) \cup PairOids(sent)) = {}
    /\ \A k \in DOMAIN unique : unique[k].link # NoLink
    /\ \A k \in DOMAIN unique_jobs : unique_jobs[k].link # NoLink

\* a finished run that merged a listing without a link and sent a shortlist
C7_Witness ==
    /\ pc = "done"
    /\ Linkless # {}
    /\ Len(sent) > 0

\* ------------------------------------------------- detail fetcher properties
\* fetch_log grows by one record per FetchDetail step and is written by no
\* other action, so every record is the last one in the state its call left
LastFetched ==
    IF pc = "detail" /\ fetch_log # <<>> THEN {fetch_log[Len(fetch_log)]} ELSE {}

IsV2(rec) == prog = "job_agent_2" /\ rec.visited /\ rec.page.nav

\* the selector list the call is to walk, source-specific selectors first
Order(rec) == source_selectors(rec.before.source) \o generic_selectors

\* the element at position <<s, k>> of the walk
ElAt(rec, c) == rec.page.dom[Order(rec)[c[1]]].els[c[2]]

\* <<s, k>> is an element the page holds under the s-th selector of the order
OnPage(rec, c) ==
    /\ c[1] \in DOMAIN Order(rec)
    /\ ~rec.page.dom[Order(rec)[c[1]]].raises
    /\ c[2] \in DOMAIN rec.page.dom[Order(rec)[c[1]]].els

\* every element of the page whose text can be read, as <<s, k>>
Candidates(rec) ==
    {c \in (DOMAIN Order(rec)) \X (1..MaxEls) :
        /\ ~rec.page.dom[Order(rec)[c[1]]].raises
        /\ c[2] <= Len(rec.page.dom[Order(rec)[c[1]]].els)
        /\ ~ElAt(rec, c).raises}

\* the candidates the walk gets to: those with no failing text read in
\* front of them under the same selector
Tried(rec) ==
    {c \in Candidates(rec) :
        \A j \in 1..c[2] : ~rec.page.dom[Order(rec)[c[1]]].els[j].raises}

Before(c, d) == c[1] < d[1] \/ (c[1] = d[1] /\ c[2] < d[2])

\* the text at c is long enough and clean, with 150 itself long enough
Passes(rec, c) == ElAt(rec, c).len >= 150 /\ ElAt(rec, c).noise = "none"

\* the text at c is longer than 150 and clean
PassesStrict(rec, c) == ElAt(rec, c).len > 150 /\ ElAt(rec, c).noise = "none"

\* the call wrote the text at c into the description
Wrote(rec, c) ==
    /\ rec.scan.hit
    /\ rec.scan.at = c
    /\ rec.after.description.kind = "page"
    /\ rec.after.description.sel = Order(rec)[c[1]]
    /\ rec.after.description.idx = c[2]

WasRead(rec, c) == \E n \in DOMAIN rec.scan.read : rec.scan.read[n] = c

\* C8 (as claimed): a text that fetch_job_detail reads is accepted as the
\* description if and only if it is longer than 150 characters and holds no
\* denylisted phrase in any letter case.
C8_AcceptIffLongerThan150 ==
    \A rec \in LastFetched :
       IsV2(rec) =>
          \A c \in Candidates(rec) :
             WasRead(rec, c) =>
                (Wrote(rec, c) <=> PassesStrict(rec, c))

\* C8 (amended): a text that fetch_job_detail reads is accepted as the
\* description if and only if it is at least 150 characters long (only
\* texts shorter than 150 are too short) and holds no denylisted phrase in
\* any letter case.
C8_AcceptIffAtLeast150 ==
    \A rec \in LastFetched :
       IsV2(rec) =>
          \A c \in Candidates(rec) :
             WasRead(rec, c) =>
                (Wrote(rec, c) <=> Passes(rec, c))

\* a call that read a clean text of 149 characters and then took one of 150
C8_Witness ==
    \E rec \in LastFetched :
       /\ IsV2(rec)
       /\ \E c, d \in Candidates(rec) :
             /\ WasRead(rec, c)
             /\ ElAt(rec, c).len = 149
             /\ ElAt(rec, c).noise = "none"
             /\ Wrote(rec, d)
             /\ ElAt(rec, d).len = 150

\* the reads of the call went through the walk front to back
ReadInOrder(rec) ==
    \A m, n \in DOMAIN rec.scan.read :
       m < n => Before(rec.scan.read[m], rec.scan.read[n])

\* the call took the first passing candidate of the set and read nothing behind it
TookFirstOf(rec, cands) ==
    \A c \in cands :
       (Passes(rec, c) /\ \A d \in cands : Before(d, c) => ~Passes(rec, d)) =>
          /\ Wrote(rec, c)
          /\ rec.after.description.len =
                IF ElAt(rec, c).len < 3000 THEN ElAt(rec, c).len ELSE 3000
          /\ \A n \in DOMAIN rec.scan.read : ~Before(c, rec.scan.read[n])

\* C9 (as claimed): the texts are read source-specific selectors first, then
\* the generic ones, in document order under each; a long text with a
\* denylisted phrase is passed over; the description written is that of the
\* first of all the page's candidates in this order that passes, and no
\* candidate behind it is read.
C9_FirstPassingOfAll ==
    \A rec \in LastFetched :
       IsV2(rec) =>
          /\ ReadInOrder(rec)
          /\ TookFirstOf(rec, Candidates(rec))

\* C9 (amended): as claimed, with the candidates being those the walk gets
\* to: a selector whose query raises yields none, and a text read that
\* raises ends its selector, so the elements behind it under that selector
\* are not candidates.
C9_FirstPassingOfTried ==
    \A rec \in LastFetched :
       IsV2(rec) =>
          /\ ReadInOrder(rec)
          /\ \A n \in DOMAIN rec.scan.read :
                /\ OnPage(rec, rec.scan.read[n])
                /\ rec.scan.read[n] \in Tried(rec) \/
                   ElAt(rec, rec.scan.read[n]).raises
          /\ TookFirstOf(rec, Tried(rec))

\* a Himalayas page whose source-specific selector gives a long text with a
\* denylisted phrase and then a clean one, which is taken although the
\* generic selector has a passing text too
C9_Witness ==
    \E rec \in LastFetched :
       /\ IsV2(rec)
       /\ rec.before.source = "Himalayas"
       /\ \E c, d, e \in Tried(rec) :
             /\ Before(c, d) /\ Before(d, e)
             /\ ElAt(rec, c).len >= 150
             /\ ElAt(rec, c).noise # "none"
             /\ Wrote(rec, d)
             /\ Order(rec)[d[1]] = LiveSpecific
             /\ Order(rec)[e[1]] = LiveGeneric
             /\ Passes(rec, e)

\* the selector list of the running program
ListOf(rec) == IF prog = "job_agent_2" THEN Order(rec) ELSE selectors_v1

\* positions of the selectors the call queried
Queried(rec) ==
    IF rec.scan.hit \/ rec.scan.at[2] = -1 THEN 1..rec.scan.at[1]
    ELSE DOMAIN ListOf(rec)

\* the page was reached and one of the queries the call made raised
AQueryRaised(rec) ==
    /\ rec.visited /\ rec.page.nav
    /\ \E n \in Queried(rec) : rec.page.dom[ListOf(rec)[n]].raises

\* the page was reached and every query the call made raised
AllQueriesRaised(rec) ==
    /\ rec.visited /\ rec.page.nav
    /\ \A n \in DOMAIN ListOf(rec) : rec.page.dom[ListOf(rec)[n]].raises

NavRaised(rec) == rec.visited /\ ~rec.page.nav

\* the dict goes on to the scorer as the call left it: it is the one in
\* unique_jobs, the scorer is given it, and a finished scoring loop has been
\* through every fetched listing
Proceeds ==
    /\ (pc = "detail" /\ fetch_log # <<>>) =>
          unique_jobs[Len(fetch_log)] = fetch_log[Len(fetch_log)].after
    /\ (pc \in {"score", "crashed"} /\ score_log # <<>>) =>
          score_log[Len(score_log)].job = fetch_log[Len(score_log)].after
    /\ pc = "send" => Len(score_log) = Len(fetch_log)
    /\ pc = "crashed" => score_log # <<>>

\* C10 (as claimed): when no candidate is accepted, or navigation raises,
\* or any selector query raises, the call leaves description and summary as
\* they were, raises nothing, and the listing goes on to scoring.
C10_UnchangedOnAnyRaise ==
    /\ \A rec \in LastFetched :
          (~rec.scan.hit \/ NavRaised(rec) \/ AQueryRaised(rec)) =>
             /\ rec.after.description = rec.before.description
             /\ rec.after.summary = rec.before.summary
             /\ ~rec.raised
    /\ Proceeds

\* C10 (amended): when no candidate is accepted, the call leaves the whole
\* dict, description and summary included, as it was; no candidate is
\* accepted when navigation raises, when every selector query raises, and
\* in job_agent when any selector query raises (in job_agent_2 one raising
\* query only skips its selector); the call never raises, and the listing
\* goes on to scoring.
C10_UnchangedOnMiss ==
    /\ \A rec \in LastFetched :
          /\ ~rec.raised
          /\ ~rec.scan.hit => rec.after = rec.before
          /\ NavRaised(rec) => ~rec.scan.hit
          /\ AllQueriesRaised(rec) => ~rec.scan.hit
          /\ (prog = "job_agent" /\ AQueryRaised(rec)) => ~rec.scan.hit
    /\ Proceeds

\* a listing with a short description whose page was visited, where a query
\* raised and nothing was accepted, and which the scorer then got unchanged
C10_Witness ==
    \E k \in DOMAIN score_log :
       /\ AQueryRaised(fetch_log[k])
       /\ ~fetch_log[k].scan.hit
       /\ fetch_log[k].before.description.len > 0
       /\ score_log[k].job = fetch_log[k].before

\* ------------------------------------------------------ detail fetch trigger
\* the call is one of job_agent_2's fetch_job_detail
OfV2(rec) == prog = "job_agent_2"

\* the listing came in with no description, or with one shorter than 200
ShortOf200(job) == job.description.kind = "absent" \/ job.description.len < 200

\* the listing came in with no description, or with one of at most 200
AtMost200(job) == job.description.kind = "absent" \/ job.description.len <= 200

\* C11 (as claimed): fetch_job_detail visits the listing's page exactly when
\* the listing has a link and its description is missing or shorter than 200
\* characters; with a description of 200 characters or more it visits
\* nothing and returns the description as it was.
C11_VisitIffShorterThan200 ==
    \A rec \in LastFetched :
       OfV2(rec) =>
          /\ rec.visited <=> (rec.before.link # NoLink /\ ShortOf200(rec.before))
          /\ ~ShortOf200(rec.before) =>
                (~rec.visited /\ rec.after.description = rec.before.description)

\* C11 (amended): fetch_job_detail of job_agent_2 visits the listing's page
\* exactly when the listing has a link and its description is missing or at
\* most 200 characters long; with a description longer than 200 characters
\* it visits nothing and returns the listing as it was.
C11_VisitIffAtMost200 ==
    \A rec \in LastFetched :
       OfV2(rec) =>
          /\ rec.visited <=> (rec.before.link # NoLink /\ AtMost200(rec.before))
          /\ ~AtMost200(rec.before) =>
                (~rec.visited /\ rec.scan.read = <<>> /\ rec.after = rec.before)

\* a feed listing whose description of exactly 200 characters was replaced
\* by a text of its page
C11_Witness ==
    \E rec \in LastFetched :
       /\ OfV2(rec)
       /\ rec.before.description.kind = "feed"
       /\ rec.before.description.len = 200
       /\ rec.visited
       /\ rec.scan.hit
       /\ rec.after.description.kind = "page"

\* ------------------------------------------------------- recency properties
\* recent_call is written by every is_recent call, in the scrape stage
LastRecent ==
    IF pc = "scrape" THEN {recent_call[k] : k \in DOMAIN recent_call} ELSE {}

\* C12: is_recent(entry, days) admits an entry whose timestamp is exactly
\* days days old, rejects one whose timestamp is days + 1 days old, and
\* admits an entry from which no date can be parsed.
C12_RecencyBoundary ==
    \A rec \in LastRecent :
       /\ (rec.date.kind \notin Unparsable /\ rec.date.age = rec.days * DAY) =>
             rec.result
       /\ (rec.date.kind \notin Unparsable /\ rec.date.age = (rec.days + 1) * DAY) =>
             ~rec.result
       /\ rec.date.kind \in Unparsable => rec.result

\* --------------------------------------------------------- adapter failures
IsPrefixOf(s, t) == Len(s) <= Len(t) /\ SubSeq(t, 1, Len(s)) = s

\* everything the adapters have appended so far, in order: what the caller
\* has merged, then the running adapter's own list
Collected == all_jobs \o jobs

\* C13: whatever happens to an adapter (a failure of the feed pull, the
\* navigation or a query at any point included), the caller gets the
\* listings the adapter had collected, the listings of earlier adapters
\* stay in the merged sequence, the next adapter runs, and the scrape stage
\* is left only after the last adapter, for normalization.
C13_AdaptersNeverRaise ==
    [][pc = "scrape" =>
          /\ IsPrefixOf(Collected, Collected')
          /\ pc' \in {"scrape", "dedup"}
          /\ board' \in {board, board + 1}
          /\ board' \in DOMAIN Adapters(prog)
          /\ (board' = board + 1 \/ pc' = "dedup") => all_jobs' = Collected
          /\ pc' = "dedup" => board = Len(Adapters(prog))]_vars

\* a finished run in which the first adapter failed after collecting a
\* listing, a later adapter produced one too, and both were merged
C13_Witness ==
    /\ pc = "done"
    /\ 1 \in failed
    /\ \E m, n \in DOMAIN all_jobs :
          /\ all_jobs[m].source = Adapters(prog)[1]
          /\ all_jobs[n].source # Adapters(prog)[1]
    /\ Len(sent) > 0

\* --------------------------------------------------------- filter and rank
\* the fit scores of a list of (job, analysis) pairs, in its order
ScoresOf(pairs) == [k \in DOMAIN pairs |-> pairs[k][2].fit_score]

\* the scorer was given the five listings of the example and answered them
\* with the example's assessments, in order
ExampleScored ==
    /\ world = "example"
    /\ Len(score_log) = Len(ExampleScores)
    /\ \A k \in DOMAIN score_log :
          /\ score_log[k].analysis.how = "object"
          /\ score_log[k].analysis.fit_score = ExampleScores[k]
          /\ score_log[k].analysis.is_backend = "true" <=> ExampleScores[k] # 5
          /\ score_log[k].analysis.is_remote = "true" <=> ExampleScores[k] # 4

\* C14 (as claimed): on the assessments 9, 7, 5, 4, 8 in scoring order,
\* with the 4 not remote and the 5 not backend and every other flag true,
\* the kept pairs are those rated 9 and 8 and the shortlist is 9, 8.
C14_ExampleKeeps98 ==
    (Ranked /\ ExampleScored) =>
        /\ ScoresOf(scored) = <<9, 8>>
        /\ ScoresOf(top_10) = <<9, 8>>

\* C14 (amended): on the same assessments the kept pairs are those rated
\* 9, 7 and 8 (the 7 has both flags true and is at least 5), and the
\* shortlist is 9, 8, 7.
C14_ExampleKeeps987 ==
    (Ranked /\ ExampleScored) =>
        /\ {score_log[k].job.oid : k \in {n \in DOMAIN score_log :
                                            score_log[n].verdict = "keep"}} = {1, 2, 5}
        /\ ScoresOf(scored) = <<9, 8, 7>>
        /\ ScoresOf(top_10) = <<9, 8, 7>>

\* the example's five assessments have been filtered and ranked
C14_Witness == Ranked /\ ExampleScored /\ Len(top_10) > 0

\* ---------------------------------------------------------- link uniqueness
\* no two entries of a list of listings carry the same link
DistinctLinks(list) ==
    Cardinality({list[k].link : k \in DOMAIN list}) = Len(list)

\* the listings of a list of (job, analysis) pairs
JobsOf(pairs) == [k \in DOMAIN pairs |-> pairs[k][1]]

\* C15: in every state of a run, the normalizer's output, the capped list
\* the detail fetcher and the scorer work on, the scored set and the
\* shortlist (also as handed to delivery) hold no link twice.
C15_LinksUnique ==
    /\ DistinctLinks(unique)
    /\ DistinctLinks(unique_jobs)
    /\ DistinctLinks(JobsOf(scored))
    /\ DistinctLinks(JobsOf(top_10))
    /\ DistinctLinks(JobsOf(sent))

\* a finished run whose adapters produced a link twice, with another
\* listing in between, and whose shortlist has two listings
C15_Witness ==
    /\ pc = "done"
    /\ \E m, n \in DOMAIN all_jobs :
          /\ m + 1 < n
          /\ all_jobs[m].link = all_jobs[n].link
          /\ all_jobs[m].link # NoLink
          /\ all_jobs[m + 1].link \notin {NoLink, all_jobs[m].link}
    /\ Len(sent) >= 2

\* --------------------------------------------------------- description cap
\* every listing of the list has a description of at most 3000 characters
Capped(list) == \A k \in DOMAIN list : list[k].description.len <= 3000

\* C16: in every state of a run, every listing, wherever it is held, has a
\* description of at most 3000 characters, be it taken from a feed entry's
\* body or written by fetch_job_detail.
C16_DescriptionCap ==
    /\ Capped(jobs)
    /\ Capped(all_jobs)
    /\ Capped(unique)
    /\ Capped(unique_jobs)
    /\ Capped(JobsOf(scored))
    /\ Capped(JobsOf(top_10))
    /\ Capped(JobsOf(sent))

\* a listing whose page gave an acceptable text of more than 3000
\* characters reached the shortlist with a description of exactly 3000
C16_Witness ==
    \E k \in DOMAIN fetch_log :
       /\ fetch_log[k].scan.hit
       /\ fetch_log[k].page.dom[ListOf(fetch_log[k])[fetch_log[k].scan.at[1]]]
             .els[fetch_log[k].scan.at[2]].len > 3000
       /\ \E n \in DOMAIN sent :
             /\ sent[n][1].oid = fetch_log[k].before.oid
             /\ sent[n][1].description.kind = "page"
             /\ sent[n][1].description.len = 3000

\* ------------------------------------------------------------ feed listings
\* the listing was made by one of the two feed adapters
FromFeed(job) == IsFeed(prog, job.source)

\* a feed adapter gave the listing a description from the entry's body
PopulatedAtCreation(list) ==
    \A k \in DOMAIN list :
       FromFeed(list[k]) =>
          /\ list[k].description.kind = "feed"
          /\ list[k].description.len <= 2000

CalledOn(log, field) == [k \in DOMAIN log |-> log[k][field].oid]

\* no value occurs twice in the sequence
NoRepeat(s) == Cardinality({s[k] : k \in DOMAIN s}) = Len(s)

\* C18: in every state of a run, no listing has been given to
\* fetch_job_detail twice nor to score_job_with_ollama twice (so none whose
\* scoring failed has been scored again), the scoring calls have made one
\* request each at most, and no listing has more than one assessment.
C18_NoRetries ==
    /\ NoRepeat(CalledOn(fetch_log, "before"))
    /\ NoRepeat(CalledOn(score_log, "job"))
    /\ posts <= Len(score_log)
    /\ Len(fetch_log) <= Len(unique_jobs)
    /\ Len(score_log) <= Len(unique_jobs)
    /\ NoRepeat([k \in DOMAIN scored |-> scored[k][1].oid])

\* a finished run in which the scoring of one listing failed and the next
\* listing was scored and kept
C18_Witness ==
    /\ pc = "done"
    /\ \E k \in DOMAIN score_log :
          /\ score_log[k].analysis.how = "None"
          /\ k + 1 \in DOMAIN score_log
          /\ score_log[k + 1].verdict = "keep"
    /\ posts = Len(score_log)
    /\ Len(sent) > 0

\* ------------------------------------------------------------ stage ordering
\* the stages of a run, in order: adapters, normalization (dedup, then the
\* cap), detail fetching with the browser close, scoring, ranking done
StageOf(p) ==
    CASE p = "scrape" -> 1
      [] p \in {"dedup", "cap"} -> 2
      [] p = "detail" -> 3
      [] p = "score" -> 4
      [] OTHER -> 5

\* C19: a run never goes back to an earlier stage; adapters act only before
\* normalization, which acts only once they are all done; a detail fetch
\* happens only after normalization and before any scoring call; a scoring
\* call happens only after every listing has been through detail fetching;
\* the sort and the shortlist are made only after every listing has been
\* scored; and nothing is written by a stage that is over.
C19_BatchStages ==
    [][/\ StageOf(pc') >= StageOf(pc)
       /\ (Collected' # Collected \/ recent_call' # recent_call \/ board' # board) =>
             /\ pc = "scrape"
             /\ unique = <<>> /\ fetch_log = <<>> /\ score_log = <<>>
       /\ unique' # unique =>
             /\ pc = "dedup" /\ board = Len(Adapters(prog)) /\ jobs = <<>>
             /\ fetch_log = <<>> /\ score_log = <<>>
       /\ (unique_jobs' # unique_jobs \/ fetch_log' # fetch_log) =>
             /\ pc \in {"cap", "detail"} /\ pc' = "detail"
             /\ score_log = <<>> /\ scored = <<>>
       /\ score_log' # score_log =>
             /\ pc = "score"
             /\ Len(fetch_log) = Len(unique_jobs)
             /\ top_10 = <<>>
       /\ (top_10' # top_10 \/ pc' = "send") =>
             /\ pc = "score"
             /\ Len(score_log) = Len(unique_jobs)
             /\ score_log' = score_log
       /\ sent' # sent => pc = "send"]_vars

\* a finished run in which two adapters produced listings, two listings were
\* fetched and scored, and a shortlist was sent
C19_Witness ==
    /\ pc = "done"
    /\ \E m, n \in DOMAIN all_jobs : all_jobs[m].source # all_jobs[n].source
    /\ Len(fetch_log) >= 2
    /\ Len(score_log) = Len(fetch_log)
    /\ Len(sent) > 0

\* ------------------------------------------------- frame of the detail fetcher
\* the two dicts differ in the description at most
SameButDescription(a, b) == b = [a EXCEPT !.description = b.description]

\* every pair of the list holds a listing exactly as unique_jobs has it
HeldAsFetched(pairs) ==
    \A n \in DOMAIN pairs :
       \E k \in DOMAIN unique_jobs : pairs[n][1] = unique_jobs[k]

\* C20: in every state of a run, a listing is as the normalizer left it
\* until its fetch_job_detail call; the call changed its description at
\* most, leaving title, company, link, salary, summary and source alone;
\* and from the call on the listing is as the call left it: the scorer is
\* given it so, and the scored set, the shortlist and what is sent hold it
\* so.
C20_DetailFetcherFrame ==
    /\ \A k \in DOMAIN unique_jobs :
          IF k \in DOMAIN fetch_log
          THEN /\ fetch_log[k].before = unique[k]
               /\ SameButDescription(fetch_log[k].before, fetch_log[k].after)
               /\ unique_jobs[k] = fetch_log[k].after
          ELSE unique_jobs[k] = unique[k]
    /\ \A k \in DOMAIN score_log : score_log[k].job = unique_jobs[k]
    /\ HeldAsFetched(scored)
    /\ HeldAsFetched(top_10)
    /\ HeldAsFetched(sent)

\* a finished run in which fetch_job_detail rewrote a listing's description
\* and the listing was sent as the call left it
C20_Witness ==
    /\ pc = "done"
    /\ \E k \in DOMAIN fetch_log :
          /\ fetch_log[k].after.description # fetch_log[k].before.description
          /\ fetch_log[k].before.description.kind = "feed"
          /\ \E n \in DOMAIN sent : sent[n][1] = fetch_log[k].after

\* --------------------------------------------------------------- termination
\* C21: every run of main, whatever the adapters produce and whichever
\* per-item calls fail, eventually has its shortlist computed and handed to
\* send_email.
C21_ReachesDelivery == <>(pc = "done" /\ sent = top_10)

====
